---- MODULE Spec2Model ----
(***************************************************************************)
(* OutlineIQ: the extraction engine (utils.extract_outline) and the batch  *)
(* driver (main.main / main.process_pdf).                                  *)
(*                                                                         *)
(* Text is a sequence of one-character strings.  Font sizes are integers   *)
(* in thousandths of a point (18.0pt = 18000), so that rounding to two     *)
(* decimals is rounding to a multiple of 10.                               *)
(***************************************************************************)
EXTENDS Integers, Sequences, FiniteSets, TLC

VARIABLES
    opts,               \* keyword options of extract_outline
    source,             \* the PDF behind `source` (what fitz will deliver)
    pc,                 \* position inside extract_outline
    doc,                \* the document handle: "none", "open", "closed"
    page_number,        \* loop variable of the page loop (0 before it)
    title,
    headings,
    pages_with_images,
    links,
    image_previews,
    exc,                \* an exception is propagating
    result,             \* the returned triple, NoResult until `return`
    batch,              \* the input/ directory seen by main()
    main_pc,            \* position inside main()
    pdf_files,          \* main's sorted list of PDFs
    file_idx,           \* number of files main has handed to process_pdf
    calls,              \* the files process_pdf was called on, in order
    log,                \* what process_pdf logged, in order
    written             \* the output files written

vars == <<opts, source, pc, doc, page_number, title, headings,
          pages_with_images, links, image_previews, exc, result,
          batch, main_pc, pdf_files, file_idx, calls, log, written>>

extract_vars == <<opts, source, pc, doc, page_number, title, headings,
                  pages_with_images, links, image_previews, exc, result>>

batch_vars == <<batch, main_pc, pdf_files, file_idx, calls, log, written>>

---------------------------------------------------------------------------
(* Bounds of the model *)

MaxPages == 3
MaxLines == 3
MaxSpans == 2
MaxImages == 2
MaxLinks == 2
MaxFiles == 3

SeqsUpTo(S, n) == UNION {[1..k -> S] : k \in 0..n}

---------------------------------------------------------------------------
(* Strings *)

Whitespace == {" ", "\t"}

LowerMap == [c \in {"A", "B", "C", "S", "T"} |->
               CASE c = "A" -> "a" [] c = "B" -> "b" [] c = "C" -> "c"
                 [] c = "S" -> "s" [] c = "T" -> "t"]

\* str.lower()
Lower(s) == [i \in 1..Len(s) |->
               IF s[i] \in DOMAIN LowerMap THEN LowerMap[s[i]] ELSE s[i]]

RECURSIVE LStrip(_)
LStrip(s) == IF s # <<>> /\ Head(s) \in Whitespace THEN LStrip(Tail(s)) ELSE s

RECURSIVE RStrip(_)
RStrip(s) == IF s # <<>> /\ s[Len(s)] \in Whitespace
               THEN RStrip(SubSeq(s, 1, Len(s) - 1)) ELSE s

\* str.strip()
Strip(s) == RStrip(LStrip(s))

\* the first word of a string that starts with a non-space
RECURSIVE WordLen(_)
WordLen(s) == IF s = <<>> \/ Head(s) \in Whitespace THEN 0
              ELSE 1 + WordLen(Tail(s))

\* str.split(): the maximal runs of non-whitespace
RECURSIVE Split(_)
Split(s) ==
    LET t == LStrip(s) IN
    IF t = <<>> THEN <<>>
    ELSE <<SubSeq(t, 1, WordLen(t))>> \o Split(SubSeq(t, WordLen(t) + 1, Len(t)))

\* " ".join(parts)
RECURSIVE Join(_)
Join(parts) ==
    IF parts = <<>> THEN <<>>
    ELSE IF Len(parts) = 1 THEN parts[1]
    ELSE parts[1] \o <<" ">> \o Join(Tail(parts))

normalize_text(s) == Strip(Join(Split(s)))

---------------------------------------------------------------------------
(* Heading classification *)

NoLevel == "None"

Classify_StrictGreater(max_font, o) ==
    IF max_font > o.min_h1 THEN "H1"
    ELSE IF max_font > o.min_h2 THEN "H2"
    ELSE IF max_font > o.min_h3 THEN "H3"
    ELSE NoLevel

\* the if / elif cascade on max_font
Classify(max_font, o) ==
    IF max_font >= o.min_h1 THEN "H1"
    ELSE IF max_font >= o.min_h2 THEN "H2"
    ELSE IF max_font >= o.min_h3 THEN "H3"
    ELSE NoLevel

Round2_Truncate(n) == n - (n % 10)

\* round(max_font, 2) on thousandths: to the nearest hundredth, an exact tie
\* to the even hundredth.  (Only sizes k/8 are exact ties in binary floating
\* point; the sizes of the model that end in 5 are of that form.)
Round2(n) ==
    LET q == n \div 10
        r == n % 10
    IN  IF r < 5 THEN 10 * q
        ELSE IF r > 5 THEN 10 * (q + 1)
        ELSE IF q % 2 = 0 THEN 10 * q ELSE 10 * (q + 1)

\* a span whose "text" is not a string makes " ".join raise
TextRaises(spans) == \E i \in 1..Len(spans) : ~spans[i].text_ok

\* " ".join(span.get("text", "") for span in spans).strip()
LineText(spans) == Strip(Join([i \in 1..Len(spans) |-> spans[i].text]))

RECURSIVE SeqMax(_)
SeqMax(s) == IF Len(s) = 1 THEN s[1]
             ELSE LET m == SeqMax(Tail(s)) IN IF s[1] >= m THEN s[1] ELSE m

\* max(float(span.get("size", 0)) for span in spans), 0.0 when float() raises
MaxFont(spans) ==
    IF \E i \in 1..Len(spans) : ~spans[i].size_ok THEN 0
    ELSE SeqMax([i \in 1..Len(spans) |-> spans[i].size])

\* the lines of the blocks that have "lines", in document order
RECURSIVE BlockLines(_)
BlockLines(blocks) ==
    IF blocks = <<>> THEN <<>>
    ELSE (IF Head(blocks).has_lines THEN Head(blocks).lines ELSE <<>>)
         \o BlockLines(Tail(blocks))

MakeHeading(spans, pn, o) ==
    [level |-> Classify(MaxFont(spans), o),
     text |-> normalize_text(LineText(spans)),
     page |-> pn,
     font_size |-> Round2(MaxFont(spans))]

\* the line loop: the headings appended until the loop ends or a line raises
RECURSIVE LineLoop(_, _, _)
LineLoop(lines, pn, o) ==
    IF lines = <<>> THEN <<>>
    ELSE LET spans == Head(lines) IN
         IF spans = <<>> THEN LineLoop(Tail(lines), pn, o)
         ELSE IF TextRaises(spans) THEN <<>>
         ELSE IF LineText(spans) = <<>> THEN LineLoop(Tail(lines), pn, o)
         ELSE IF Classify(MaxFont(spans), o) # NoLevel
              THEN <<MakeHeading(spans, pn, o)>> \o LineLoop(Tail(lines), pn, o)
              ELSE LineLoop(Tail(lines), pn, o)

PageHeadings_Atomic(page, pn, o) ==
    IF page.text.raises THEN <<>>
    ELSE IF \E i \in 1..Len(BlockLines(page.text.blocks)) :
                BlockLines(page.text.blocks)[i] # <<>>
                /\ TextRaises(BlockLines(page.text.blocks)[i])
         THEN <<>>
    ELSE LineLoop(BlockLines(page.text.blocks), pn, o)

\* what the "Headings" try block appends for one page
PageHeadings(page, pn, o) ==
    IF page.text.raises THEN <<>>
    ELSE LineLoop(BlockLines(page.text.blocks), pn, o)

---------------------------------------------------------------------------
(* Links *)

\* the link loop: the links appended until the loop ends or an item raises
RECURSIVE LinkLoop(_, _)
LinkLoop(items, pn) ==
    IF items = <<>> THEN <<>>
    ELSE IF Head(items).kind = "bad" THEN <<>>
    ELSE IF Head(items).kind = "uri"
         THEN <<[page |-> pn, uri |-> Head(items).uri]>> \o LinkLoop(Tail(items), pn)
    ELSE LinkLoop(Tail(items), pn)

\* what the "Links" try block appends for one page
PageLinks(page, pn) ==
    IF page.links.raises THEN <<>> ELSE LinkLoop(page.links.items, pn)

---------------------------------------------------------------------------
(* Images *)

\* _make_image_preview: a PNG data URI of the image's thumbnail
make_image_preview(xref) == <<"data:image/png;base64", xref>>

ImgsToProcess_All(images, o) == images

\* images[:1] if detect_first_image_only else images
ImgsToProcess(images, o) ==
    IF o.detect_first_image_only
      THEN SubSeq(images, 1, IF Len(images) < 1 THEN Len(images) ELSE 1)
      ELSE images

\* the image loop; a failing extract_image / preview, or empty bytes, adds nothing
RECURSIVE ImageLoop(_, _)
ImageLoop(imgs, pn) ==
    IF imgs = <<>> THEN <<>>
    ELSE (IF Head(imgs).kind = "ok"
          THEN <<[page |-> pn, preview |-> make_image_preview(Head(imgs).xref)]>>
          ELSE <<>>)
         \o ImageLoop(Tail(imgs), pn)

PagePreviews(page, pn, o) ==
    IF page.images.raises THEN <<>>
    ELSE ImageLoop(ImgsToProcess(page.images.refs, o), pn)

HasImages_Previewed(page, pn, o) == PagePreviews(page, pn, o) # <<>>

\* `if images:` after a get_images that did not raise
HasImages(page, pn, o) == ~page.images.raises /\ page.images.refs # <<>>

---------------------------------------------------------------------------
(* Result assembly *)

\* key = (h["level"], h["text"].lower(), h["page"])
Key(h) == <<h.level, Lower(h.text), h.page>>

RECURSIVE DedupLoop(_, _)
DedupLoop(hs, seen) ==
    IF hs = <<>> THEN <<>>
    ELSE IF Key(Head(hs)) \notin seen
         THEN <<Head(hs)>> \o DedupLoop(Tail(hs), seen \cup {Key(Head(hs))})
         ELSE DedupLoop(Tail(hs), seen)

Dedup_Adjacent(hs) ==
    LET keep == {i \in 1..Len(hs) : i = 1 \/ Key(hs[i - 1]) # Key(hs[i])}
        F[i \in 0..Len(hs)] ==
            IF i = 0 THEN <<>>
            ELSE IF i \in keep THEN Append(F[i - 1], hs[i]) ELSE F[i - 1]
    IN  F[Len(hs)]

\* the seen-set loop over headings
Dedup(hs) == DedupLoop(hs, {})

\* sorted(S) of a set of integers
RECURSIVE Sorted(_)
Sorted(S) ==
    IF S = {} THEN <<>>
    ELSE LET m == CHOOSE x \in S : \A y \in S : x <= y
         IN  <<m>> \o Sorted(S \ {m})

\* title.strip() or "Untitled", of doc.metadata.get("title") or ""
Untitled == <<"U", "n", "t", "i", "t", "l", "e", "d">>

ResolveTitle(t) == IF Strip(t) = <<>> THEN Untitled ELSE Strip(t)

NoResult == [returned |-> FALSE]

---------------------------------------------------------------------------
(* The documents and options the model runs on *)

DefaultOpts_H2At12 == [min_h1 |-> 18000, min_h2 |-> 12000, min_h3 |-> 10000,
                       detect_first_image_only |-> TRUE]

\* the keyword defaults of extract_outline
DefaultOpts == [min_h1 |-> 18000, min_h2 |-> 14000, min_h3 |-> 10000,
                detect_first_image_only |-> TRUE]

\* What fitz delivers for a document.  Every call into the library may raise:
\*   open_ok    fitz.open(...) succeeds
\*   meta_ok    doc.metadata is a dict (it is None for a document that opened
\*              but still needs a password), so that .get("title") works
\*   load_ok    enumerate(doc) can load the page
\*   raises     page.get_images / get_links / get_text raises
\* and an item handed back by the library may be one the loop body cannot read:
\*   kind "bad" a link item whose .get raises
\*   text_ok    the span's "text" is a string (" ".join raises otherwise)
\*   size_ok    float() accepts the span's "size"
\*   image kind "ok" (bytes that decode), "empty" (no bytes), "fail"
\*              (extract_image or the preview raises)
Span(t, sz) == [text_ok |-> TRUE, text |-> t, size_ok |-> TRUE, size |-> sz]
BadTextSpan == [text_ok |-> FALSE, text |-> <<>>, size_ok |-> TRUE, size |-> 20000]
BadSizeSpan(t) == [text_ok |-> TRUE, text |-> t, size_ok |-> FALSE, size |-> 0]

TextBlock(lines) == [has_lines |-> TRUE, lines |-> lines]
ImageBlock == [has_lines |-> FALSE, lines |-> <<>>]

Text(lines) == [raises |-> FALSE, blocks |-> <<TextBlock(lines)>>]
NoText == [raises |-> FALSE, blocks |-> <<>>]
TextFails == [raises |-> TRUE, blocks |-> <<>>]

Uri(u) == [kind |-> "uri", uri |-> u]
NoUri == [kind |-> "nouri", uri |-> ""]
BadLink == [kind |-> "bad", uri |-> ""]
Links(items) == [raises |-> FALSE, items |-> items]
LinksFail == [raises |-> TRUE, items |-> <<>>]

\* image references of one page; the xref is the position in the page's list
Images(kinds) == [raises |-> FALSE,
                  refs |-> [i \in 1..Len(kinds) |-> [xref |-> i, kind |-> kinds[i]]]]
ImagesFail == [raises |-> TRUE, refs |-> <<>>]

Page(im, li, tx) == [load_ok |-> TRUE, images |-> im, links |-> li, text |-> tx]
BlankPage == Page(Images(<<>>), Links(<<>>), NoText)
BrokenPage == [load_ok |-> FALSE, images |-> Images(<<>>), links |-> Links(<<>>),
               text |-> NoText]

Pdf(pages) == [open_ok |-> TRUE, meta_ok |-> TRUE, title |-> <<>>, pages |-> pages]

\* the call extract_outline(src, **o)
Input(o, src) == opts = o /\ source = src

\* the spec's end-to-end sample
Chapter1 == <<"C", "h", "a", "p", "t", "e", "r", " ", "1">>
Section11 == <<"S", "e", "c", "t", "i", "o", "n", " ", "1", ".", "1">>
ExampleUri == "https://example.com"
SamplePdf ==
    Pdf(<<Page(Images(<<"ok">>), Links(<<Uri(ExampleUri)>>),
               Text(<<<<Span(Chapter1, 20000)>>, <<Span(Section11, 12000)>>>>))>>)

\* a file that is no PDF; a PDF without metadata; no page; the sample; titles
OpenInputs ==
    \/ Input(DefaultOpts, [Pdf(<<BlankPage>>) EXCEPT !.open_ok = FALSE])
    \/ Input(DefaultOpts, [Pdf(<<BlankPage>>) EXCEPT !.meta_ok = FALSE])
    \/ Input(DefaultOpts, Pdf(<<>>))
    \/ Input(DefaultOpts, SamplePdf)
    \/ \E t \in {<<" ">>, <<" ", "T", "\t">>, <<"a", " ", "b">>} :
          Input(DefaultOpts, [Pdf(<<BlankPage>>) EXCEPT !.title = t])

\* one page, one line of up to MaxSpans spans, every size around every threshold
Sizes == {9996, 10000, 12000, 13996, 14000, 16125, 17996, 18000, 18004, 20000}

Thresholds == {<<18000, 14000, 10000>>, <<14000, 14000, 14000>>,
               <<18000, 18000, 10000>>, <<18004, 14000, 9996>>,
               <<10000, 14000, 18000>>}

ClassifySpans == {Span(<<"a">>, sz) : sz \in Sizes} \cup {BadSizeSpan(<<"a">>)}

ClassifyInputs ==
    \E th \in Thresholds, spans \in SeqsUpTo(ClassifySpans, MaxSpans) \ {<<>>} :
        Input([DefaultOpts EXCEPT !.min_h1 = th[1], !.min_h2 = th[2], !.min_h3 = th[3]],
              Pdf(<<Page(Images(<<>>), Links(<<>>), Text(<<spans>>))>>))

\* one page, one line of spans whose texts carry blanks, tabs and capitals
SpanTexts == {<<>>, <<" ">>, <<"a">>, <<"\t", "a", " ", " ", "B", " ">>, <<"A", "\t", "b">>}

NormalizeInputs ==
    \E ts \in SeqsUpTo(SpanTexts, MaxSpans) :
        Input(DefaultOpts,
              Pdf(<<Page(Images(<<>>), Links(<<>>),
                         Text(<<[i \in 1..Len(ts) |-> Span(ts[i], 20000)]>>))>>))

\* one page of up to MaxLines lines that repeat texts, cases and levels
DedupLines == {<<Span(t, sz)>> : t \in {<<"a">>, <<"A">>, <<"b">>}, sz \in {20000, 16125}}

DedupInputs ==
    \E lines \in SeqsUpTo(DedupLines, MaxLines) :
        Input(DefaultOpts, Pdf(<<Page(Images(<<>>), Links(<<>>), Text(lines))>>))

\* one page of up to MaxImages image references, in both preview modes
ImageInputs ==
    \E f \in BOOLEAN, ks \in SeqsUpTo({"ok", "empty", "fail"}, MaxImages) :
        Input([DefaultOpts EXCEPT !.detect_first_image_only = f],
              Pdf(<<Page(Images(ks), Links(<<>>), NoText)>>))

\* one page of up to MaxLinks link items
LinkInputs ==
    \E items \in SeqsUpTo({Uri("u1"), Uri("u2"), NoUri, BadLink}, MaxLinks) :
        Input(DefaultOpts, Pdf(<<Page(Images(<<>>), Links(items), NoText)>>))

\* up to MaxPages pages, each of one of these kinds
PageKinds ==
    {BlankPage,
     BrokenPage,
     Page(Images(<<"ok", "ok">>), Links(<<>>), NoText),
     Page(Images(<<"fail">>), Links(<<NoUri>>),
          [raises |-> FALSE,
           blocks |-> <<ImageBlock, TextBlock(<<<<>>, <<Span(<<"b">>, 14000)>>>>)>>]),
     Page(ImagesFail, Links(<<Uri("u1")>>), Text(<<<<Span(<<"a">>, 20000)>>>>)),
     Page(Images(<<"empty", "ok">>), LinksFail, Text(<<<<Span(<<"A">>, 20000)>>>>)),
     Page(Images(<<>>), Links(<<Uri("u1"), BadLink, Uri("u2")>>), NoText),
     Page(Images(<<"ok">>), Links(<<Uri("u2")>>), TextFails),
     Page(Images(<<>>), Links(<<>>),
          Text(<<<<Span(<<"a">>, 20000)>>, <<BadTextSpan>>, <<Span(<<"b">>, 12000)>>>>))}

PagesInputs ==
    \E f \in BOOLEAN, pages \in SeqsUpTo(PageKinds, MaxPages) :
        Input([DefaultOpts EXCEPT !.detect_first_image_only = f], Pdf(pages))

Inputs ==
    \/ OpenInputs
    \/ ClassifyInputs
    \/ NormalizeInputs
    \/ DedupInputs
    \/ ImageInputs
    \/ LinkInputs
    \/ PagesInputs

---------------------------------------------------------------------------
(* extract_outline *)

BatchIdle ==
    /\ batch = [setup_ok |-> TRUE, input_exists |-> FALSE, listing |-> <<>>,
                outcome |-> <<>>]
    /\ main_pc = "idle"
    /\ pdf_files = <<>>
    /\ file_idx = 0
    /\ calls = <<>>
    /\ log = <<>>
    /\ written = {}

Init ==
    /\ Inputs
    /\ pc = "open"
    /\ doc = "none"
    /\ page_number = 0
    /\ title = <<>>
    /\ headings = <<>>
    /\ pages_with_images = {}
    /\ links = <<>>
    /\ image_previews = <<>>
    /\ exc = FALSE
    /\ result = NoResult
    /\ BatchIdle

\* an exception leaves the try body for the finally clause
Raise ==
    /\ exc' = TRUE
    /\ pc' = "finally"

\* fitz.open(...)
Open ==
    /\ pc = "open"
    /\ IF source.open_ok
         THEN doc' = "open" /\ pc' = "title" /\ exc' = exc
         ELSE doc' = doc /\ Raise
    /\ UNCHANGED <<opts, source, page_number, title, headings, pages_with_images,
                   links, image_previews, result>>
    /\ UNCHANGED batch_vars

\* title = doc.metadata.get("title") or ""; title.strip() or "Untitled"
ReadTitle ==
    /\ pc = "title"
    /\ IF source.meta_ok
         THEN title' = ResolveTitle(source.title) /\ pc' = "loop" /\ exc' = exc
         ELSE title' = title /\ Raise
    /\ UNCHANGED <<opts, source, doc, page_number, headings, pages_with_images,
                   links, image_previews, result>>
    /\ UNCHANGED batch_vars

\* for page_number, page in enumerate(doc, start=1): the next page, or the end
NextPage ==
    /\ pc = "loop"
    /\ IF page_number = Len(source.pages)
         THEN page_number' = page_number /\ pc' = "assemble" /\ exc' = exc
         ELSE IF source.pages[page_number + 1].load_ok
                THEN page_number' = page_number + 1 /\ pc' = "images" /\ exc' = exc
                ELSE page_number' = page_number /\ Raise
    /\ UNCHANGED <<opts, source, doc, title, headings, pages_with_images,
                   links, image_previews, result>>
    /\ UNCHANGED batch_vars

\* the "Images" try block of the current page
ScanImages ==
    /\ pc = "images"
    /\ LET page == source.pages[page_number] IN
         /\ pages_with_images' =
              IF HasImages(page, page_number, opts)
                THEN pages_with_images \cup {page_number}
                ELSE pages_with_images
         /\ image_previews' = image_previews \o PagePreviews(page, page_number, opts)
    /\ pc' = "links"
    /\ UNCHANGED <<opts, source, doc, page_number, title, headings, links, exc, result>>
    /\ UNCHANGED batch_vars

\* the "Links" try block of the current page
ScanLinks ==
    /\ pc = "links"
    /\ links' = links \o PageLinks(source.pages[page_number], page_number)
    /\ pc' = "text"
    /\ UNCHANGED <<opts, source, doc, page_number, title, headings,
                   pages_with_images, image_previews, exc, result>>
    /\ UNCHANGED batch_vars

\* the "Headings" try block of the current page
ScanText ==
    /\ pc = "text"
    /\ headings' = headings \o PageHeadings(source.pages[page_number], page_number, opts)
    /\ pc' = "loop"
    /\ UNCHANGED <<opts, source, doc, page_number, title, links,
                   pages_with_images, image_previews, exc, result>>
    /\ UNCHANGED batch_vars

\* dedup, metadata, and the value of the return statement
Assemble ==
    /\ pc = "assemble"
    /\ result' = [returned |-> TRUE,
                  title |-> title,
                  headings |-> Dedup(headings),
                  metadata |-> [pages_with_images |-> Sorted(pages_with_images),
                                links |-> links,
                                image_previews |-> image_previews]]
    /\ pc' = "finally"
    /\ UNCHANGED <<opts, source, doc, page_number, title, headings,
                   pages_with_images, links, image_previews, exc>>
    /\ UNCHANGED batch_vars

CloseDoc_OnSuccessOnly == IF doc # "none" /\ ~exc THEN "closed" ELSE doc

\* if doc is not None: doc.close(), whatever close raises being swallowed
CloseDoc == IF doc # "none" THEN "closed" ELSE doc

\* the finally clause, then the return or the re-raise
Finally ==
    /\ pc = "finally"
    /\ doc' = CloseDoc
    /\ pc' = IF exc THEN "raised" ELSE "returned"
    /\ UNCHANGED <<opts, source, page_number, title, headings, pages_with_images,
                   links, image_previews, exc, result>>
    /\ UNCHANGED batch_vars

Next ==
    \/ Open
    \/ ReadTitle
    \/ NextPage
    \/ ScanImages
    \/ ScanLinks
    \/ ScanText
    \/ Assemble
    \/ Finally

Spec == Init /\ [][Next]_vars

---------------------------------------------------------------------------
(* main.py: the batch driver *)

\* input/*.pdf are the files 1..n (their names, ordered as the names sort);
\* glob lists them in any order.  What happens to each file inside process_pdf:
\*   "ok"              extraction returns, the output is written
\*   "exists"          the same, and the output file was already there
\*   "extract_raises"  extract_outline raises
\*   "write_raises"    opening or dumping the output file raises
Outcomes == {"ok", "exists", "extract_raises", "write_raises"}

Listings(n) == {p \in [1..n -> 1..n] : \A i, j \in 1..n : p[i] = p[j] => i = j}

Batches ==
    {[setup_ok |-> s, input_exists |-> e, listing |-> l, outcome |-> o] :
        s \in BOOLEAN, e \in BOOLEAN, l \in {<<>>}, o \in {<<>>}}
    \cup UNION {{[setup_ok |-> TRUE, input_exists |-> TRUE, listing |-> l, outcome |-> o] :
                    l \in Listings(n), o \in [1..n -> Outcomes]} : n \in 1..MaxFiles}

Range(f) == {f[i] : i \in DOMAIN f}

ExtractIdle ==
    /\ opts = DefaultOpts
    /\ source = Pdf(<<>>)
    /\ pc = "idle"
    /\ doc = "none"
    /\ page_number = 0
    /\ title = <<>>
    /\ headings = <<>>
    /\ pages_with_images = {}
    /\ links = <<>>
    /\ image_previews = <<>>
    /\ exc = FALSE
    /\ result = NoResult

BatchInit ==
    /\ batch \in Batches
    /\ main_pc = "start"
    /\ pdf_files = <<>>
    /\ file_idx = 0
    /\ calls = <<>>
    /\ log = <<>>
    /\ written = {}
    /\ ExtractIdle

process_pdf_NoCatch(f, overwrite) ==
    LET o == batch.outcome[f] IN
    IF o = "extract_raises"
      THEN [logged |-> <<<<"Processing", f>>>>, wrote |-> FALSE, raised |-> TRUE]
    ELSE IF o = "exists" /\ ~overwrite
      THEN [logged |-> <<<<"Processing", f>>, <<"Skipping", f>>>>,
            wrote |-> FALSE, raised |-> FALSE]
    ELSE IF o = "write_raises"
      THEN [logged |-> <<<<"Processing", f>>>>, wrote |-> FALSE, raised |-> TRUE]
    ELSE [logged |-> <<<<"Processing", f>>, <<"Saved", f>>>>,
          wrote |-> TRUE, raised |-> FALSE]

\* process_pdf(filepath, overwrite=...): what it logs, whether it writes the
\* output, and whether an exception leaves it
process_pdf(f, overwrite) ==
    LET o == batch.outcome[f] IN
    IF o = "extract_raises"
      THEN [logged |-> <<<<"Processing", f>>, <<"Failed", f>>>>,
            wrote |-> FALSE, raised |-> FALSE]
    ELSE IF o = "exists" /\ ~overwrite
      THEN [logged |-> <<<<"Processing", f>>, <<"Skipping", f>>>>,
            wrote |-> FALSE, raised |-> FALSE]
    ELSE IF o = "write_raises"
      THEN [logged |-> <<<<"Processing", f>>, <<"Failed", f>>>>,
            wrote |-> FALSE, raised |-> FALSE]
    ELSE [logged |-> <<<<"Processing", f>>, <<"Saved", f>>>>,
          wrote |-> TRUE, raised |-> FALSE]

\* main() up to the loop: mkdir, the input folder check, sorted(glob), the empty check
MainStart ==
    /\ main_pc = "start"
    /\ IF ~batch.setup_ok
         THEN main_pc' = "crashed" /\ pdf_files' = pdf_files
         ELSE IF ~batch.input_exists
                THEN main_pc' = "done" /\ pdf_files' = pdf_files
                ELSE /\ pdf_files' = Sorted(Range(batch.listing))
                     /\ main_pc' = IF batch.listing = <<>> THEN "done" ELSE "loop"
    /\ UNCHANGED <<batch, file_idx, calls, log, written>>
    /\ UNCHANGED extract_vars

\* one iteration of `for pdf_file in pdf_files: process_pdf(pdf_file)`
ProcessNext ==
    /\ main_pc = "loop"
    /\ file_idx < Len(pdf_files)
    /\ LET f == pdf_files[file_idx + 1]
           r == process_pdf(f, TRUE)
       IN  /\ calls' = Append(calls, f)
           /\ log' = log \o r.logged
           /\ written' = IF r.wrote THEN written \cup {f} ELSE written
           /\ main_pc' = IF r.raised THEN "crashed" ELSE main_pc
    /\ file_idx' = file_idx + 1
    /\ UNCHANGED <<batch, pdf_files>>
    /\ UNCHANGED extract_vars

\* the loop is exhausted: "All done"
MainEnd ==
    /\ main_pc = "loop"
    /\ file_idx = Len(pdf_files)
    /\ main_pc' = "done"
    /\ UNCHANGED <<batch, pdf_files, file_idx, calls, log, written>>
    /\ UNCHANGED extract_vars

BatchNext ==
    \/ MainStart
    \/ ProcessNext
    \/ MainEnd

BatchSpec == BatchInit /\ [][BatchNext]_vars

---------------------------------------------------------------------------
(* What the claims speak of, stated on the document and not on the loops *)

Returned == pc = "returned"

\* page p has been through its three try blocks
Scanned(p) == p < page_number \/ (p = page_number /\ pc \notin {"images", "links", "text"})

OnPage(s, p) == SelectSeq(s, LAMBDA x : x.page = p)

Ordered(o) == o.min_h1 >= o.min_h2 /\ o.min_h2 >= o.min_h3
StrictlyOrdered(o) == o.min_h1 > o.min_h2 /\ o.min_h2 > o.min_h3

\* the level the tiers give a size s
TierOf(s, o) ==
    CHOOSE l \in {"H1", "H2", "H3", NoLevel} :
        /\ l = "H1" <=> s >= o.min_h1
        /\ l = "H2" <=> (o.min_h2 <= s /\ s < o.min_h1)
        /\ l = "H3" <=> (o.min_h3 <= s /\ s < o.min_h2)
        /\ l = NoLevel <=> s < o.min_h3

\* the lines of a page, and the first of them whose text cannot be read
AllLines(page) ==
    LET bs == page.text.blocks
        F[i \in 0..Len(bs)] ==
            IF i = 0 THEN <<>>
            ELSE IF bs[i].has_lines THEN F[i - 1] \o bs[i].lines ELSE F[i - 1]
    IN  F[Len(bs)]

Unreadable(line) == \E i \in 1..Len(line) : ~line[i].text_ok

FirstUnreadable(page) ==
    LET ls == AllLines(page)
        bad == {i \in 1..Len(ls) : Unreadable(ls[i])}
    IN  IF bad = {} THEN Len(ls) + 1 ELSE CHOOSE i \in bad : \A j \in bad : i <= j

TextFailed(page) == page.text.raises \/ FirstUnreadable(page) <= Len(AllLines(page))

\* the lines read before any failure that carry text: the text runs
TextRuns(page) ==
    IF page.text.raises THEN <<>>
    ELSE SelectSeq(SubSeq(AllLines(page), 1, FirstUnreadable(page) - 1),
                   LAMBDA line : line # <<>> /\ LineText(line) # <<>>)

\* the size of a run: the largest span size, 0 when a size is no number
RunSize(line) ==
    IF \E i \in 1..Len(line) : ~line[i].size_ok THEN 0
    ELSE CHOOSE m \in {line[i].size : i \in 1..Len(line)} :
            \A i \in 1..Len(line) : line[i].size <= m

Levels(hs) == [i \in 1..Len(hs) |-> hs[i].level]

\* C1: with min_h1 >= min_h2 >= min_h3, the headings a scanned page added are,
\* in order, its text runs of size >= min_h3, each with the level of its tier:
\* H1 iff s >= min_h1, H2 iff min_h2 <= s < min_h1, H3 iff min_h3 <= s < min_h2,
\* and no heading iff s < min_h3 (a size equal to a threshold is in the higher tier).
C1_TieredClassification ==
    Ordered(opts) =>
        \A p \in 1..Len(source.pages) :
            Scanned(p) =>
                Levels(OnPage(headings, p)) =
                    SelectSeq([i \in 1..Len(TextRuns(source.pages[p])) |->
                                  TierOf(RunSize(TextRuns(source.pages[p])[i]), opts)],
                              LAMBDA l : l # NoLevel)

\* a line whose size is exactly min_h2, below min_h1, became an H2
C1_Witness ==
    /\ Returned
    /\ opts.min_h2 < opts.min_h1
    /\ Len(source.pages) = 1
    /\ Len(TextRuns(source.pages[1])) = 1
    /\ RunSize(TextRuns(source.pages[1])[1]) = opts.min_h2
    /\ Levels(headings) = <<"H2">>

SampleResult(section_level) ==
    [returned |-> TRUE,
     title |-> Untitled,
     headings |-> <<[level |-> "H1", text |-> Chapter1, page |-> 1, font_size |-> 20000],
                    [level |-> section_level, text |-> Section11, page |-> 1,
                     font_size |-> 12000]>>,
     metadata |-> [pages_with_images |-> <<1>>,
                   links |-> <<[page |-> 1, uri |-> ExampleUri]>>,
                   image_previews |-> <<[page |-> 1, preview |-> make_image_preview(1)]>>]]

SampleRun == Returned /\ source = SamplePdf /\ opts = DefaultOpts

\* C2 as stated: the sample document yields H1 "Chapter 1" and H2 "Section 1.1"
C2_SampleAsStated == SampleRun => result = SampleResult("H2")

\* C2 amended: the sample document with default options yields H1 "Chapter 1"
\* (20pt) and H3 "Section 1.1" (12pt is below min_h2 = 14), the link, pages with
\* images [1] and one non-empty preview of page 1.
C2_SampleYieldsH1H3 ==
    SampleRun =>
        /\ result = SampleResult("H3")
        /\ result.metadata.image_previews[1].preview # <<>>

C2_Witness == SampleRun /\ Len(result.headings) = 2

\* the key of the claim: level, lowercased text, page
ClaimKey(h) == <<h.level, Lower(h.text), h.page>>

FirstOccurrences(hs) ==
    LET keep == {i \in 1..Len(hs) : \A j \in 1..(i - 1) : ClaimKey(hs[j]) # ClaimKey(hs[i])}
        F[i \in 0..Len(hs)] ==
            IF i = 0 THEN <<>>
            ELSE IF i \in keep THEN Append(F[i - 1], hs[i]) ELSE F[i - 1]
    IN  F[Len(hs)]

\* C3: the returned headings are the first occurrence of each key (level,
\* lowercased text, page) of the accumulated headings, in encounter order; no two
\* share a key; deduplicating the returned headings again changes nothing.
C3_DedupFirstOccurrence ==
    Returned =>
        /\ result.headings = FirstOccurrences(headings)
        /\ \A i, j \in 1..Len(result.headings) :
              ClaimKey(result.headings[i]) = ClaimKey(result.headings[j]) => i = j
        /\ Dedup(result.headings) = result.headings

\* a heading repeated after a different one, in another case, was dropped
C3_Witness ==
    /\ Returned
    /\ Len(headings) = 3
    /\ ClaimKey(headings[1]) = ClaimKey(headings[3])
    /\ ClaimKey(headings[1]) # ClaimKey(headings[2])
    /\ headings[1].text # headings[3].text
    /\ result.headings = <<headings[1], headings[2]>>

\* C4: pages_with_images of a result is strictly ascending and holds exactly the
\* pages that had an image reference, with or without a preview of that page.
C4_PagesWithImages ==
    Returned =>
        LET pwi == result.metadata.pages_with_images IN
        /\ \A i \in 1..(Len(pwi) - 1) : pwi[i] < pwi[i + 1]
        /\ {pwi[i] : i \in 1..Len(pwi)} =
              {p \in 1..Len(source.pages) :
                  ~source.pages[p].images.raises /\ source.pages[p].images.refs # <<>>}

\* two pages with images are listed, one of them without any preview
C4_Witness ==
    /\ Returned
    /\ Len(result.metadata.pages_with_images) >= 2
    /\ \E i \in 1..Len(result.metadata.pages_with_images) :
          OnPage(result.metadata.image_previews, result.metadata.pages_with_images[i]) = <<>>

Exited == pc \in {"returned", "raised"}

\* C5 as stated: once the document is open (and has its metadata), the call
\* returns a result and has scanned every page.
C5_PageFailureNeverAborts ==
    (Exited /\ source.open_ok /\ source.meta_ok) =>
        (Returned /\ result.returned /\ page_number = Len(source.pages))

\* the link items of a page, and the first of them that cannot be read
FirstBadLink(page) ==
    LET bad == {i \in 1..Len(page.links.items) : page.links.items[i].kind = "bad"}
    IN  IF bad = {} THEN Len(page.links.items) + 1
        ELSE CHOOSE i \in bad : \A j \in bad : i <= j

LinksFailed(page) == page.links.raises \/ FirstBadLink(page) <= Len(page.links.items)

\* the URIs of the link items read before any failure
UrisRead(page) ==
    LET read == SelectSeq(SubSeq(page.links.items, 1, FirstBadLink(page) - 1),
                          LAMBDA l : l.kind = "uri")
    IN  IF page.links.raises THEN <<>> ELSE [i \in 1..Len(read) |-> read[i].uri]

\* the normalized texts of the runs read before any failure that are headings
HeadingTextsRead(page, o) ==
    LET runs == SelectSeq(TextRuns(page), LAMBDA line : RunSize(line) >= o.min_h3)
    IN  [i \in 1..Len(runs) |-> normalize_text(LineText(runs[i]))]

PreviewsOf(refs, p) ==
    [i \in 1..Len(refs) |-> [page |-> p, preview |-> make_image_preview(refs[i].xref)]]

\* C8 as stated: in first-image-only mode a page has at most one preview, of its
\* first reference; otherwise one preview per image reference, in reference order.
C8_OnePreviewPerReference ==
    Returned =>
        \A p \in 1..Len(source.pages) :
            LET pv == OnPage(result.metadata.image_previews, p)
                refs == source.pages[p].images.refs
            IN  IF opts.detect_first_image_only
                  THEN Len(pv) <= 1 /\ (pv # <<>> => pv = PreviewsOf(SubSeq(refs, 1, 1), p))
                  ELSE pv = PreviewsOf(refs, p)

\* C8 amended: in first-image-only mode a page has one preview when its first
\* image reference could be extracted and previewed, and none otherwise; when the
\* mode is off it has one preview per image reference that could be extracted
\* and previewed, in reference order.
C8_OnePreviewPerDecodedReference ==
    Returned =>
        \A p \in 1..Len(source.pages) :
            LET pv == OnPage(result.metadata.image_previews, p)
                refs == source.pages[p].images.refs
                good == SelectSeq(refs, LAMBDA r : r.kind = "ok")
            IN  IF opts.detect_first_image_only
                  THEN pv = IF refs # <<>> /\ refs[1].kind = "ok"
                              THEN PreviewsOf(<<refs[1]>>, p) ELSE <<>>
                  ELSE pv = PreviewsOf(good, p)

\* both modes on a page of two references: one preview where both decode in
\* the first-only mode, one preview where only the second decodes otherwise
C8_Witness ==
    /\ Returned
    /\ \E p \in 1..Len(source.pages) :
          LET pv == OnPage(result.metadata.image_previews, p)
              refs == source.pages[p].images.refs
          IN  /\ Len(refs) = 2
              /\ Len(pv) = 1
              /\ \/ opts.detect_first_image_only /\ refs[2].kind = "ok"
                 \/ ~opts.detect_first_image_only /\ refs[1].kind # "ok"

Tiered(level, size, o) ==
    /\ level = "H1" <=> size >= o.min_h1
    /\ level = "H2" <=> (o.min_h2 <= size /\ size < o.min_h1)
    /\ level = "H3" <=> (o.min_h3 <= size /\ size < o.min_h2)
    /\ size >= o.min_h3

\* C9 as stated: with min_h1 > min_h2 > min_h3, every returned heading's level
\* is the tier of its stored (rounded) font_size.
C9_StoredSizeInvariant ==
    (Returned /\ StrictlyOrdered(opts)) =>
        \A i \in 1..Len(result.headings) :
            Tiered(result.headings[i].level, result.headings[i].font_size, opts)

\* C9 amended: with min_h1 > min_h2 > min_h3, every returned heading's level is
\* the tier of the unrounded size s of its line, and its stored font_size is a
\* multiple of 0.01 within 0.005 of s.
C9_UnroundedSizeInvariant ==
    (Returned /\ StrictlyOrdered(opts)) =>
        \A i \in 1..Len(result.headings) :
            LET h == result.headings[i]
                runs == TextRuns(source.pages[h.page])
            IN  \E k \in 1..Len(runs) :
                    /\ normalize_text(LineText(runs[k])) = h.text
                    /\ Tiered(h.level, RunSize(runs[k]), opts)
                    /\ h.font_size % 10 = 0
                    /\ h.font_size - RunSize(runs[k]) \in -5..5

\* a heading classified below a threshold that its stored size has reached
C9_Witness ==
    /\ Returned
    /\ StrictlyOrdered(opts)
    /\ \E i \in 1..Len(result.headings) :
          /\ result.headings[i].level = "H2"
          /\ result.headings[i].font_size = opts.min_h1

AscendingSeq(s) == \A i \in 1..(Len(s) - 1) : s[i] < s[i + 1]

FailsInside(f) == batch.outcome[f] \in {"extract_raises", "write_raises"}

\* C10: a failure of extraction or of writing for one file stays inside
\* process_pdf, which logs it: main calls process_pdf on the PDFs in sorted order,
\* on every one of them by the time it ends, and ends without an exception unless
\* its own setup failed.
C10_BatchContinues ==
    /\ main_pc = "crashed" => (~batch.setup_ok /\ calls = <<>>)
    /\ AscendingSeq(calls)
    /\ Range(calls) \subseteq Range(batch.listing)
    /\ (main_pc = "done" /\ batch.setup_ok /\ batch.input_exists) =>
          Range(calls) = Range(batch.listing)
    /\ \A i \in 1..Len(calls) :
          FailsInside(calls[i]) =>
              (<<"Failed", calls[i]>> \in Range(log) /\ calls[i] \notin written)

\* main ended normally after an extraction failure and a write failure, having
\* called process_pdf on later files of an unsorted listing
C10_Witness ==
    /\ main_pc = "done"
    /\ Len(calls) >= 3
    /\ batch.listing # calls
    /\ batch.outcome[calls[1]] = "extract_raises"
    /\ batch.outcome[calls[2]] = "write_raises"
    /\ calls[3] \in written

====
